---- MODULE Spec2Model ----
(***************************************************************************)
(* A model of simdjson's parse entry points (src/src/jsonparser.cpp, which *)
(* also holds jsonparser.h) and of the JSON-Pointer resolver of            *)
(* ParsedJson::iterator (src/unnamed/part_000, parsedjsoniterator.cpp).    *)
(*                                                                         *)
(* Bytes are integers 0..255; a string is a sequence of bytes.             *)
(***************************************************************************)
EXTENDS Integers, Sequences, FiniteSets, TLC

VARIABLES env, json_parse_ptr, pj, pc, call, probes, it, last

vars == <<env, json_parse_ptr, pj, pc, call, probes, it, last>>

(***************************************************************************)
(* Bounds of the model.                                                    *)
(***************************************************************************)
\* How far around a page-boundary threshold the last input byte is placed.
MaxBack == 1
\* How many times the host probe may run before no further call is started
\* through json_parse_dispatch.
MaxProbes == 3
\* The longest JSON Pointer tried, in tokens.
MaxTokens == 3
\* pj.depthcapacity, the number of entries of an iterator's scope stack: more
\* than the documents of the model are deep.
DepthCapacity == 6

(***************************************************************************)
(* Status codes (simdjson.h).                                              *)
(***************************************************************************)
SUCCESS == "SUCCESS"
CAPACITY == "CAPACITY"
MEMALLOC == "MEMALLOC"
TAPE_ERROR == "TAPE_ERROR"
UNCLOSED_STRING == "UNCLOSED_STRING"
UNINITIALIZED == "UNINITIALIZED"
UNEXPECTED_ERROR == "UNEXPECTED_ERROR"

\* The over-read of stage 1 past the last input byte, in bytes.
SIMDJSON_PADDING == 64

(***************************************************************************)
(* Bytes that the pointer resolver tests for (character literals of        *)
(* parsedjsoniterator.cpp).                                                *)
(***************************************************************************)
NUL == 0
QUOTE == 34
HASH == 35
PERCENT == 37
DASH == 45
SLASH == 47
ZERO == 48
ONE == 49
NINE == 57
BACKSLASH == 92
TILDE == 126
\* The largest byte that a backslash may escape besides '\' and '"' (0x1F).
CTRL_MAX == 31
\* INT_MAX: std::stoi throws std::out_of_range above it.
INT_MAX == 2147483647

(***************************************************************************)
(* JSON documents, as trees.  The tape and the string arena that stage 2   *)
(* writes for them follow the data model of the specification: the code of *)
(* stage 2 is not part of the sources modelled here.                       *)
(***************************************************************************)
Obj(keys, kids) == [t |-> "obj", keys |-> keys, kids |-> kids, n |-> 0]
Arr(kids) == [t |-> "arr", keys |-> <<>>, kids |-> kids, n |-> 0]
Num(n) == [t |-> "int", keys |-> <<>>, kids |-> <<>>, n |-> n]

\* The keys that occur in the documents: "f", "/~" and "\".
KEY_f == <<102>>
KEY_slash_tilde == <<SLASH, TILDE>>
KEY_backslash == <<BACKSLASH>>

\* The byte 'f'.
LETTER_f == KEY_f[1]

\* The string arena: each string value of a tape is an offset into it.
StringArena == <<KEY_f, KEY_slash_tilde, KEY_backslash>>

ArenaOffset(str) == CHOOSE i \in 1..Len(StringArena) : StringArena[i] = str

\* {"f":[{"f":42}]}
DocExample == Obj(<<KEY_f>>, <<Arr(<<Obj(<<KEY_f>>, <<Num(42)>>)>>)>>)
\* [[7],{"/~":[1,2],"\\":[]}]
DocNested ==
    Arr(<<Arr(<<Num(7)>>),
          Obj(<<KEY_slash_tilde, KEY_backslash>>,
              <<Arr(<<Num(1), Num(2)>>), Arr(<<>>)>>)>>)
\* 1
DocScalar == Num(1)
\* []
DocEmpty == Arr(<<>>)

Docs == <<DocExample, DocNested, DocScalar, DocEmpty>>

DocIds == 1..Len(Docs)

\* The number of tape slots of a value.
RECURSIVE Size(_)
RECURSIVE SizeOfKids(_, _)
SizeOfKids(kids, upto) ==
    IF upto = 0 THEN 0 ELSE SizeOfKids(kids, upto - 1) + Size(kids[upto])

Size(v) ==
    CASE v.t = "int" -> 2
      [] v.t = "arr" -> 2 + SizeOfKids(v.kids, Len(v.kids))
      [] v.t = "obj" -> 2 + Len(v.kids) + SizeOfKids(v.kids, Len(v.kids))

\* The tape index of child k of the container v whose open slot is at base:
\* in an object each child is preceded by the slot of its key.
ChildBase(v, base, k) ==
    base + 1 + SizeOfKids(v.kids, k - 1)
         + (IF v.t = "obj" THEN k ELSE 0)

\* The slots of value v written from tape index base on.  The payload of an
\* open slot is the index just past its close slot, that of a close slot the
\* index of its open slot ('[' of "[]" at 1 holds 3, ']' holds 1).
RECURSIVE Emit(_, _)
RECURSIVE EmitKids(_, _, _)
EmitKids(v, base, k) ==
    IF k > Len(v.kids) THEN <<>>
    ELSE (IF v.t = "obj"
          THEN <<[tag |-> "\"", val |-> ArenaOffset(v.keys[k])]>>
          ELSE <<>>)
         \o Emit(v.kids[k], ChildBase(v, base, k))
         \o EmitKids(v, base, k + 1)

Emit(v, base) ==
    CASE v.t = "int" -> <<[tag |-> "l", val |-> 0], [tag |-> "raw", val |-> v.n]>>
      [] v.t = "arr" -> <<[tag |-> "[", val |-> base + Size(v)]>>
                        \o EmitKids(v, base, 1)
                        \o <<[tag |-> "]", val |-> base]>>
      [] v.t = "obj" -> <<[tag |-> "{", val |-> base + Size(v)]>>
                        \o EmitKids(v, base, 1)
                        \o <<[tag |-> "}", val |-> base]>>

\* The whole tape of a document: the root slot, the root value, the root slot
\* again, both holding the total length.
TapeOf(v) ==
    <<[tag |-> "r", val |-> Size(v) + 2]>> \o Emit(v, 1)
        \o <<[tag |-> "r", val |-> Size(v) + 2]>>

Tapes == [d \in DocIds |-> TapeOf(Docs[d])]

\* pj.tape[i] of the document d (tape indices start at 0).
TapeAt(d, i) == Tapes[d][i + 1]

(***************************************************************************)
(* ParsedJson::iterator.  The state of an iterator is the record           *)
(*   status        "ok", or "none" (no iterator), or the exception that    *)
(*                 its construction threw                                  *)
(*   code          the status code that exception carries, or NoCode       *)
(*   depth, location, tape_length, current_type, current_val               *)
(*   depthindex    the scope stack, entries 0 .. depthcapacity-1           *)
(* current_val holds the payload (low 56 bits); current_type the tag.      *)
(***************************************************************************)

NoCode == "no code"

\* An entry of new scopeindex_t[] that was never written.
Unwritten == [start_of_scope |-> 0, scope_type |-> "?"]

NoIterator ==
    [status |-> "none", code |-> NoCode, depth |-> 0, location |-> 0,
     tape_length |-> 0, current_type |-> "?", current_val |-> 0,
     depthindex |-> [k \in 0..(DepthCapacity - 1) |-> Unwritten]]

\* throw InvalidJSON(): the exception is built without arguments.
ThrowInvalidJSON == [NoIterator EXCEPT !.status = "InvalidJSON"]

\* ParsedJson::iterator::iterator(ParsedJson &pj_)
IteratorCtor(p) ==
    IF ~p.isvalid THEN ThrowInvalidJSON
    ELSE LET root == TapeAt(p.doc, 0)
             di0 == [NoIterator.depthindex EXCEPT
                       ![0] = [start_of_scope |-> 0, scope_type |-> root.tag]]
         IN IF root.tag = "r"
            THEN IF 1 < root.val
                 THEN [status |-> "ok", code |-> NoCode, depth |-> 1,
                       location |-> 1, tape_length |-> root.val,
                       current_type |-> TapeAt(p.doc, 1).tag,
                       current_val |-> TapeAt(p.doc, 1).val,
                       depthindex |-> [di0 EXCEPT ![1] =
                           [start_of_scope |-> 1,
                            scope_type |-> TapeAt(p.doc, 1).tag]]]
                 ELSE [status |-> "ok", code |-> NoCode, depth |-> 0,
                       location |-> 1, tape_length |-> root.val,
                       current_type |-> root.tag, current_val |-> root.val,
                       depthindex |-> di0]
            ELSE ThrowInvalidJSON

is_object(s) == s.current_type = "{"
is_array(s) == s.current_type = "["

\* The cursor s placed on tape slot loc of document d.
AtLocation(d, s, loc) ==
    [s EXCEPT !.location = loc,
              !.current_type = TapeAt(d, loc).tag,
              !.current_val = TapeAt(d, loc).val]

\* down(): into the first child of the container the cursor is on; false when
\* the cursor is on no container or the container is empty.
down(d, s) ==
    IF s.location + 1 >= s.tape_length THEN [r |-> FALSE, s |-> s]
    ELSE IF is_object(s) \/ is_array(s)
    THEN IF s.current_val = s.location + 2 THEN [r |-> FALSE, s |-> s]
         ELSE [r |-> TRUE,
               s |-> AtLocation(d,
                       [s EXCEPT !.depth = s.depth + 1,
                                 !.depthindex[s.depth + 1] =
                                     [start_of_scope |-> s.location + 1,
                                      scope_type |-> s.current_type]],
                       s.location + 1)]
    ELSE [r |-> FALSE, s |-> s]

\* up(): to the container that holds the current scope; false at the root.
up(d, s) ==
    IF s.depth = 1 THEN [r |-> FALSE, s |-> s]
    ELSE [r |-> TRUE,
          s |-> AtLocation(d, [s EXCEPT !.depth = s.depth - 1],
                           s.depthindex[s.depth].start_of_scope - 1)]

\* next(): to the next sibling in the current scope; false at its end.
next(d, s) ==
    LET npos == IF is_object(s) \/ is_array(s) THEN s.current_val
                ELSE s.location + (IF s.current_type \in {"d", "l"} THEN 2 ELSE 1)
    IN IF TapeAt(d, npos).tag \in {"]", "}", "r"} THEN [r |-> FALSE, s |-> s]
       ELSE [r |-> TRUE, s |-> AtLocation(d, s, npos)]

\* rewind(): while (up());
RECURSIVE rewind(_, _)
rewind(d, s) == IF up(d, s).r THEN rewind(d, up(d, s).s) ELSE s

\* A faulty variant of the loop below: it does not advance at all.
NextToEndStays(d, s) == s

\* while (next());
RECURSIVE NextToEnd(_, _)
NextToEnd(d, s) == IF next(d, s).r THEN NextToEnd(d, next(d, s).s) ELSE s

\* get_string() of the string slot the cursor is on.
get_string(s) == StringArena[s.current_val]

\* move_to_value(): from a key to its value, the next slot.
move_to_value(d, s) == AtLocation(d, s, s.location + 1)

\* The do-while loop of move_to_key over the members of an object, the cursor
\* on a key.  When no key matches, the cursor's position is unspecified: a
\* build with assertions goes back up() to the object, one without them
\* (ndebug) leaves the cursor on the last member's value.
RECURSIVE KeyLoop(_, _, _, _)
KeyLoop(d, s, key, ndebug) ==
    LET v == move_to_value(d, s)
    IN IF get_string(s) = key THEN [r |-> TRUE, s |-> v]
       ELSE IF next(d, v).r THEN KeyLoop(d, next(d, v).s, key, ndebug)
       ELSE [r |-> FALSE, s |-> IF ndebug THEN v ELSE up(d, v).s]

\* move_to_key(key, length): from an object to the value of its first member
\* whose key equals key byte for byte.
move_to_key(d, s, key, ndebug) ==
    IF down(d, s).r THEN KeyLoop(d, down(d, s).s, key, ndebug)
    ELSE [r |-> FALSE, s |-> s]

(***************************************************************************)
(* The JSON-Pointer resolver.  A pointer is a sequence of bytes; pointer[i] *)
(* of the code is Byte(ptr, i, ...).  The code reads the byte just past    *)
(* the pointer's end in three places (lines 200, 221-227 and 234): what it *)
(* finds there is the calling context cx.after (the terminating NUL of a   *)
(* C string, or any byte for an unterminated or uninitialised buffer).     *)
(* A context cx is [d, after, ndebug]: the document, that byte, and        *)
(* whether assertions are compiled out.                                    *)
(***************************************************************************)
Byte(ptr, i, cx) == IF i < Len(ptr) THEN ptr[i + 1] ELSE cx.after

Outcome(r, s) == [r |-> r, s |-> s]

\* Lines 209-244: the loop that decodes one token, from offset on.  Yields
\* the decoded key_or_index and the offset where the loop stopped, or
\* ok = FALSE at a return false.
RECURSIVE ScanToken(_, _, _, _, _)
ScanToken(s, ptr, cx, offset, key) ==
    IF offset >= Len(ptr) THEN [ok |-> TRUE, key |-> key, offset |-> offset]
    ELSE LET c == ptr[offset + 1]
             c1 == Byte(ptr, offset + 1, cx)
         IN IF c = SLASH THEN [ok |-> TRUE, key |-> key, offset |-> offset]
            ELSE IF is_array(s) /\ (c < ZERO \/ c > NINE)
            THEN [ok |-> FALSE, key |-> key, offset |-> offset]
            ELSE IF c = TILDE /\ c1 = ONE
            THEN ScanToken(s, ptr, cx, offset + 2, Append(key, SLASH))
            ELSE IF c = TILDE /\ c1 = ZERO
            THEN ScanToken(s, ptr, cx, offset + 2, Append(key, TILDE))
            ELSE IF c = BACKSLASH
            THEN IF c1 = BACKSLASH \/ c1 = QUOTE \/ c1 <= CTRL_MAX
                 THEN ScanToken(s, ptr, cx, offset + 2, Append(key, c1))
                 ELSE [ok |-> FALSE, key |-> key, offset |-> offset]
            ELSE ScanToken(s, ptr, cx, offset + 1, Append(key, c))

\* The value of a string of decimal digits, or -1 when it is beyond INT_MAX.
RECURSIVE DecimalValue(_)
DecimalValue(digits) ==
    IF digits = <<>> THEN 0
    ELSE LET hi == DecimalValue(SubSeq(digits, 1, Len(digits) - 1))
             lo == digits[Len(digits)] - ZERO
         IN IF hi < 0 \/ hi > (INT_MAX - lo) \div 10 THEN -1
            ELSE 10 * hi + lo

\* std::stoi(key_or_index) of line 259, its argument being digits only:
\* the exception it throws, or "" when it returns.
StoiThrows(key) ==
    IF key = <<>> THEN "invalid_argument"
    ELSE IF DecimalValue(key) < 0 THEN "out_of_range"
    ELSE ""

\* A faulty variant of the loop below: it counts without calling next().
IndexLoopNoStep(d, s, i, index) == [i |-> index, s |-> s]

\* Lines 260-265: at most index times next(); yields the count i reached.
RECURSIVE IndexLoop(_, _, _, _)
IndexLoop(d, s, i, index) ==
    IF i < index /\ next(d, s).r THEN IndexLoop(d, next(d, s).s, i + 1, index)
    ELSE [i |-> i, s |-> s]

\* bool ParsedJson::iterator::relative_move_to(pointer, length).  The outcome
\* is "true" or "false", the exception that escapes, or "undefined" when the
\* recursive call is made with a length that wrapped around.
RECURSIVE relative_move_to(_, _, _)
relative_move_to(s, ptr, cx) ==
    IF Len(ptr) = 0 THEN Outcome("true", s)
    ELSE IF ptr[1] # SLASH THEN Outcome("false", s)
    ELSE LET dash == is_array(s) /\ Byte(ptr, 1, cx) = DASH
         IN IF dash /\ Len(ptr) # 2 THEN Outcome("false", s)
            ELSE LET tok == IF dash
                            THEN [ok |-> TRUE, key |-> <<DASH>>, offset |-> Len(ptr)]
                            ELSE ScanToken(s, ptr, cx, 1, <<>>)
                     rest == SubSeq(ptr, tok.offset + 1, Len(ptr))
                 IN IF ~tok.ok THEN Outcome("false", s)
                    ELSE IF is_object(s)
                    THEN LET m == move_to_key(cx.d, s, tok.key, cx.ndebug)
                         IN IF ~m.r THEN Outcome("false", m.s)
                            ELSE IF tok.offset > Len(ptr)
                            THEN Outcome("undefined", m.s)
                            ELSE relative_move_to(m.s, rest, cx)
                    ELSE IF is_array(s)
                    THEN LET dn == down(cx.d, s)
                         IN IF ~dn.r THEN Outcome("false", dn.s)
                            ELSE IF tok.key = <<DASH>>
                            THEN Outcome("true", NextToEnd(cx.d, dn.s))
                            ELSE IF StoiThrows(tok.key) # ""
                            THEN Outcome(StoiThrows(tok.key), dn.s)
                            ELSE LET lp == IndexLoop(cx.d, dn.s, 0,
                                                     DecimalValue(tok.key))
                                 IN IF lp.i = DecimalValue(tok.key)
                                    THEN relative_move_to(lp.s, rest, cx)
                                    ELSE Outcome("false", lp.s)
                    ELSE Outcome("false", s)

\* The value of a hexadecimal digit, or -1.
HexVal(c) ==
    IF c >= ZERO /\ c <= NINE THEN c - ZERO
    ELSE IF c >= 65 /\ c <= 70 THEN c - 55
    ELSE IF c >= 97 /\ c <= 102 THEN c - 87
    ELSE -1

IsSpace(c) == c = 32 \/ (c >= 9 /\ c <= 13)
IsSign(c) == c = 43 \/ c = DASH

\* std::stoi(std::string(&pointer[i+1], 2), nullptr, 16) of line 138, on the
\* two bytes a and b: as strtol, it skips white space, takes a sign and a 0x
\* prefix, and converts the longest run of hexadecimal digits; it throws
\* std::invalid_argument (ok = FALSE) only when there is no digit to convert.
Stoi16(a, b) ==
    IF IsSpace(a) \/ IsSign(a)
    THEN IF HexVal(b) >= 0
         THEN [ok |-> TRUE, v |-> IF a = DASH THEN 0 - HexVal(b) ELSE HexVal(b)]
         ELSE [ok |-> FALSE, v |-> 0]
    ELSE IF HexVal(a) >= 0
    THEN IF HexVal(b) >= 0 THEN [ok |-> TRUE, v |-> 16 * HexVal(a) + HexVal(b)]
         ELSE [ok |-> TRUE, v |-> HexVal(a)]
    ELSE [ok |-> FALSE, v |-> 0]

\* A faulty variant of the conversion below: it writes every decoded byte
\* as it is, without a backslash before '\', '"' or a control byte.
RECURSIVE FragDecodeNoEscape(_, _, _, _)
FragDecodeNoEscape(ptr, cx, i, out) ==
    IF i >= Len(ptr) THEN [ok |-> TRUE, p |-> out]
    ELSE IF ptr[i + 1] = PERCENT
    THEN LET fragment == Stoi16(Byte(ptr, i + 1, cx), Byte(ptr, i + 2, cx))
         IN IF ~fragment.ok THEN [ok |-> FALSE, p |-> out]
            ELSE FragDecodeNoEscape(ptr, cx, i + 3,
                                    out \o <<fragment.v % 256>>)
    ELSE FragDecodeNoEscape(ptr, cx, i + 1, Append(out, ptr[i + 1]))

\* Lines 135-156: the loop that converts the fragment form, from index i on;
\* new_pointer so far is out.  ok = FALSE at the return false of line 149.
RECURSIVE FragDecode(_, _, _, _)
FragDecode(ptr, cx, i, out) ==
    IF i >= Len(ptr) THEN [ok |-> TRUE, p |-> out]
    ELSE IF ptr[i + 1] = PERCENT
    THEN LET fragment == Stoi16(Byte(ptr, i + 1, cx), Byte(ptr, i + 2, cx))
         IN IF ~fragment.ok THEN [ok |-> FALSE, p |-> out]
            ELSE FragDecode(ptr, cx, i + 3,
                   (IF fragment.v = BACKSLASH \/ fragment.v = QUOTE
                       \/ fragment.v <= CTRL_MAX
                    THEN Append(out, BACKSLASH) ELSE out)
                   \o <<fragment.v % 256>>)
    ELSE FragDecode(ptr, cx, i + 1, Append(out, ptr[i + 1]))

\* Lines 176-181: the saved fields are put back; depthindex_s is the pointer
\* to the very array that relative_move_to wrote to, so the scope stack
\* keeps what it wrote.
RestoreSnapshot(saved, now) ==
    [now EXCEPT !.depth = saved.depth, !.location = saved.location,
                !.tape_length = saved.tape_length,
                !.current_type = saved.current_type,
                !.current_val = saved.current_val]

\* bool ParsedJson::iterator::move_to(pointer, length)
move_to(s, ptr, cx) ==
    LET dec == IF Byte(ptr, 0, cx) = HASH THEN FragDecode(ptr, cx, 1, <<>>)
               ELSE [ok |-> TRUE, p |-> ptr]
    IN IF ~dec.ok THEN Outcome("false", s)
       ELSE LET found == relative_move_to(rewind(cx.d, s), dec.p, cx)
            IN IF found.r = "false"
               THEN Outcome("false", RestoreSnapshot(s, found.s))
               ELSE found

(***************************************************************************)
(* Parsing.  env is the process's environment, fixed at its start:         *)
(*   build     the macros the library was compiled with                    *)
(*   overrun   whether ALLOW_SAME_PAGE_BUFFER_OVERRUN is among them        *)
(*   ndebug    whether assertions are compiled out                         *)
(*   host      what detectHostSIMDExtensions() reports                     *)
(*   pagesize  sysconf(_SC_PAGESIZE)                                       *)
(*   threads   the threads that call json_parse, each on its own document  *)
(*   wide      whether the calls range over all inputs and addresses       *)
(***************************************************************************)
Threads == {1, 2}

\* The inputs: the text, its length, what stage 1 and stage 2 return on it
\* and, for a document, its place in Docs.
Inputs ==
    <<[text |-> "{\"f\":[{\"f\":42}]}", len |-> 16, s1 |-> SUCCESS,
       s2 |-> SUCCESS, doc |-> 1],
      [text |-> "[[7],{\"/~\":[1,2],\"\\\\\":[]}]", len |-> 26, s1 |-> SUCCESS,
       s2 |-> SUCCESS, doc |-> 2],
      [text |-> "1", len |-> 1, s1 |-> SUCCESS, s2 |-> SUCCESS, doc |-> 3],
      [text |-> "[]", len |-> 2, s1 |-> SUCCESS, s2 |-> SUCCESS, doc |-> 4],
      [text |-> "\"", len |-> 1, s1 |-> UNCLOSED_STRING, s2 |-> TAPE_ERROR,
       doc |-> 0],
      [text |-> "]", len |-> 1, s1 |-> SUCCESS, s2 |-> TAPE_ERROR, doc |-> 0]>>

\* The capacities a document is allocated with (allocateCapacity).
Capacities == {2, 26}

\* The addresses of the last input byte: around the offset in the page from
\* which the padding no longer fits, at the end of a page and at its start.
LastByteAddresses(pagesize) ==
    {4 * pagesize + o : o \in
        ((pagesize - SIMDJSON_PADDING - MaxBack)..(pagesize - SIMDJSON_PADDING + MaxBack))
        \cup ((pagesize - 1 - MaxBack)..(pagesize - 1))
        \cup (0..MaxBack)}

NewParsedJson(capacity) ==
    [bytecapacity |-> capacity, isvalid |-> FALSE, errorcode |-> UNINITIALIZED,
     doc |-> 0]

\* pj.isValid()
isValid(p) == p.isvalid

\* A faulty variant of the probe below: it prefers SSE4.2 to AVX2.
find_best_sse4_2_first(host, build) ==
    IF "__SSE4_2__" \in build /\ ("AVX" \in host \/ "SSE" \in host)
    THEN "sse4_2"
    ELSE IF "__AVX2__" \in build /\ "AVX2" \in host THEN "avx2"
    ELSE IF "__ARM_NEON" \in build THEN "neon"
    ELSE "none"

\* instruction_set find_best_supported_implementation()
find_best_supported_implementation(host, build) ==
    IF "__AVX2__" \in build \/ "__SSE4_2__" \in build
    THEN IF "__AVX2__" \in build /\ "AVX2" \in host THEN "avx2"
         ELSE IF "__SSE4_2__" \in build /\ ("AVX" \in host \/ "SSE" \in host)
         THEN "sse4_2"
         ELSE "none"
    ELSE IF "__ARM_NEON" \in build
    THEN "neon"  \* available_implementations | SIMDExtension_NEON is never 0
    ELSE "none"

\* The switch of json_parse_dispatch: the implementation that it installs for
\* best_implementation, or "none" at its default label.
Selected(best, build) ==
    IF best = "avx2" /\ "__AVX2__" \in build THEN "avx2"
    ELSE IF best = "sse4_2" /\ "__SSE4_2__" \in build THEN "sse4_2"
    ELSE IF best = "neon" /\ "__ARM_NEON" \in build THEN "neon"
    ELSE "none"

\* find_structural_bits<T>(buf, len, pj): stage 1 starts the parse, so the
\* document is no longer valid, and returns its status.
find_structural_bits(p, input) ==
    [ret |-> input.s1, pj |-> [p EXCEPT !.isvalid = FALSE]]

\* unified_machine<T>(buf, len, pj): stage 2 writes the tape and records its
\* status on the document.
unified_machine(p, input) ==
    IF input.s2 = SUCCESS
    THEN [ret |-> SUCCESS,
          pj |-> [p EXCEPT !.isvalid = TRUE, !.errorcode = SUCCESS,
                           !.doc = input.doc]]
    ELSE [ret |-> input.s2,
          pj |-> [p EXCEPT !.isvalid = FALSE, !.errorcode = input.s2,
                           !.doc = 0]]

\* Line 142: the condition under which the input is copied when
\* ALLOW_SAME_PAGE_BUFFER_OVERRUN is defined.
SamePageTest(lastbyte, pagesize) ==
    (lastbyte % pagesize) + SIMDJSON_PADDING < pagesize

\* Lines 125-145: whether the input is copied to a padded buffer.
Reallocates(a, e) ==
    a.reallocifneeded
    /\ (IF e.overrun THEN SamePageTest(a.buf + a.len - 1, e.pagesize) ELSE TRUE)

\* A faulty variant of the test below: the status of stage 1 is ignored.
ReturnsAfterStage1Never(stage1_is_ok) == FALSE

\* Line 154: whether the function returns after stage 1.
ReturnsAfterStage1(stage1_is_ok) == stage1_is_ok # SUCCESS

\* Line 159: whether the padded copy is freed once stage 2 has returned.
FreesAfterStage2(reallocated) == reallocated

\* int json_parse_implementation<T>(buf, len, pj, reallocifneeded) on the
\* arguments a = [input, buf, len, reallocifneeded, allocok], allocok telling
\* whether allocate_padded_buffer succeeds.  Yields the status returned, the
\* document afterwards, and what was done in order: "alloc" and "free" of the
\* padded copy, "stage1" and "stage2", each stage with the buffer it read.
json_parse_implementation(p, a, e) ==
    IF p.bytecapacity < a.len
    THEN [ret |-> CAPACITY, pj |-> p, events |-> <<>>]
    ELSE IF Reallocates(a, e) /\ ~a.allocok
    THEN [ret |-> MEMALLOC, pj |-> p, events |-> <<>>]
    ELSE LET reallocated == Reallocates(a, e)
             buf == IF reallocated THEN "copy" ELSE "caller"
             ev0 == IF reallocated THEN <<"alloc">> ELSE <<>>
             st1 == find_structural_bits(p, Inputs[a.input])
             ev1 == ev0 \o <<"stage1 " \o buf>>
         IN IF ReturnsAfterStage1(st1.ret)
            THEN [ret |-> st1.ret,
                  pj |-> [st1.pj EXCEPT !.errorcode = st1.ret],
                  events |-> ev1]
            ELSE LET st2 == unified_machine(st1.pj, Inputs[a.input])
                 IN [ret |-> st2.ret, pj |-> st2.pj,
                     events |-> ev1 \o <<"stage2 " \o buf>>
                                \o (IF FreesAfterStage2(reallocated)
                                    THEN <<"free">> ELSE <<>>)]

(***************************************************************************)
(* The state.                                                              *)
(*   json_parse_ptr  the process-wide pointer to the implementation        *)
(*   pj[t]           the document of thread t                              *)
(*   pc[t]           where thread t is: "idle" (in no call), "dispatch"    *)
(*                   (in json_parse_dispatch, before line 47), "selected"  *)
(*                   (after line 47, before the switch)                    *)
(*   call[t]         the arguments of thread t's current or last call of   *)
(*                   json_parse, and once it has returned its result       *)
(*   probes          how many times find_best_supported_implementation ran *)
(*   it              the iterator of thread 1                              *)
(*   last            the last operation on the iterator: its name, the     *)
(*                   shape of its argument and its outcome; for the        *)
(*                   constructor, what the last parse returned and the     *)
(*                   status code the document held                         *)
(***************************************************************************)
NoCall ==
    [input |-> 0, buf |-> 0, len |-> 0, reallocifneeded |-> FALSE,
     allocok |-> FALSE, via |-> "none", best |-> "none", ret |-> "none",
     events |-> <<>>]

\* The shape of a pointer: whether it is in fragment form, whether it holds
\* a '%', whether it ends with the token "-".
NoShape == [fragment |-> FALSE, percent |-> FALSE, dash |-> FALSE]

NoOperation ==
    [op |-> "none", arg |-> NoShape, r |-> "none", lastret |-> "none",
     errorcode |-> "none"]

\* The arguments json_parse is called with in environment e.
Arguments(e) ==
    IF e.wide
    THEN {a \in {[input |-> i, buf |-> l - Inputs[i].len + 1,
                   len |-> Inputs[i].len, reallocifneeded |-> r,
                   allocok |-> ok] :
                     i \in 1..Len(Inputs),
                     l \in LastByteAddresses(e.pagesize),
                     r \in BOOLEAN, ok \in BOOLEAN} :
             a.reallocifneeded \/ a.allocok}
    ELSE {[input |-> i, buf |-> 5 * e.pagesize - Inputs[i].len,
           len |-> Inputs[i].len, reallocifneeded |-> TRUE, allocok |-> TRUE] :
              i \in {3, 5}}

\* The call a of thread t runs the installed implementation to its end.
RunImplementation(t, a, via, best) ==
    LET res == json_parse_implementation(pj[t], a, env)
    IN /\ pj' = [pj EXCEPT ![t] = res.pj]
       /\ call' = [call EXCEPT ![t] =
                     [input |-> a.input, buf |-> a.buf, len |-> a.len,
                      reallocifneeded |-> a.reallocifneeded,
                      allocok |-> a.allocok, via |-> via, best |-> best,
                      ret |-> res.ret, events |-> res.events]]
       /\ pc' = [pc EXCEPT ![t] = "idle"]

\* json_parse(buf, len, pj, reallocifneeded): the call through json_parse_ptr,
\* which enters json_parse_dispatch or an implementation.
JsonParse(t) ==
    /\ t \in env.threads
    /\ pc[t] = "idle"
    /\ \E a \in Arguments(env) :
          \/ /\ json_parse_ptr = "json_parse_dispatch"
             /\ probes < MaxProbes
             /\ pc' = [pc EXCEPT ![t] = "dispatch"]
             /\ call' = [call EXCEPT ![t] =
                           [input |-> a.input, buf |-> a.buf, len |-> a.len,
                            reallocifneeded |-> a.reallocifneeded,
                            allocok |-> a.allocok,
                            via |-> "json_parse_dispatch", best |-> "none",
                            ret |-> "none", events |-> <<>>]]
             /\ UNCHANGED pj
          \/ /\ json_parse_ptr # "json_parse_dispatch"
             /\ RunImplementation(t, a, json_parse_ptr, "none")
    /\ it' = IF t = 1 THEN NoIterator ELSE it
    /\ last' = IF t = 1 THEN NoOperation ELSE last
    /\ UNCHANGED <<env, json_parse_ptr, probes>>

\* json_parse_dispatch, line 47: the host is probed.
FindBest(t) ==
    /\ pc[t] = "dispatch"
    /\ probes' = probes + 1
    /\ call' = [call EXCEPT ![t].best =
                  find_best_supported_implementation(env.host, env.build)]
    /\ pc' = [pc EXCEPT ![t] = "selected"]
    /\ UNCHANGED <<env, json_parse_ptr, pj, it, last>>

\* json_parse_dispatch, lines 50-71: the implementation is installed and
\* called, or UNEXPECTED_ERROR is returned.
Select(t) ==
    /\ pc[t] = "selected"
    /\ LET sel == Selected(call[t].best, env.build)
       IN IF sel = "none"
          THEN /\ call' = [call EXCEPT ![t].ret = UNEXPECTED_ERROR]
               /\ pc' = [pc EXCEPT ![t] = "idle"]
               /\ UNCHANGED <<json_parse_ptr, pj>>
          ELSE /\ json_parse_ptr' = sel
               /\ RunImplementation(t, call[t], "json_parse_dispatch",
                                    call[t].best)
    /\ UNCHANGED <<env, probes, it, last>>

\* ParsedJson::iterator it(pj) on the document of thread 1.
Construct ==
    /\ pc[1] = "idle"
    /\ it' = IteratorCtor(pj[1])
    /\ last' = [NoOperation EXCEPT !.op = "iterator", !.lastret = call[1].ret,
                                   !.errorcode = pj[1].errorcode]
    /\ UNCHANGED <<env, json_parse_ptr, pj, pc, call, probes>>

\* The library and the host: an x86 build on an x86 host, an ARM build on an
\* ARM host (which has NEON), or a build for neither.
Platforms ==
    {[build |-> b, host |-> h] :
        b \in {{"__AVX2__", "__SSE4_2__"}, {"__SSE4_2__"}},
        h \in {{}, {"SSE"}, {"SSE", "AVX"}, {"SSE", "AVX", "AVX2"}}}
    \cup {[build |-> {"__ARM_NEON"}, host |-> {"NEON"}],
          [build |-> {}, host |-> {"SSE", "AVX", "AVX2"}]}

Environment(pf, overrun, ndebug, pagesize, threads, wide) ==
    [build |-> pf.build, host |-> pf.host, overrun |-> overrun,
     ndebug |-> ndebug, pagesize |-> pagesize, threads |-> threads,
     wide |-> wide]

InitProcess ==
    /\ json_parse_ptr = "json_parse_dispatch"
    /\ \E c \in Capacities : pj = [t \in Threads |-> NewParsedJson(c)]
    /\ pc = [t \in Threads |-> "idle"]
    /\ call = [t \in Threads |-> NoCall]
    /\ probes = 0
    /\ it = NoIterator
    /\ last = NoOperation

\* One thread parses one input after another, of any kind and at any address.
Init ==
    /\ \E pf \in {p \in Platforms : p.build = {"__AVX2__", "__SSE4_2__"}
                                       /\ p.host \in {{}, {"SSE", "AVX", "AVX2"}}},
          overrun \in BOOLEAN, pagesize \in {4096, 16384} :
          env = Environment(pf, overrun, FALSE, pagesize, {1}, TRUE)
    /\ InitProcess

Next ==
    \/ \E t \in Threads : JsonParse(t) \/ FindBest(t) \/ Select(t)
    \/ Construct

Spec == Init /\ [][Next]_vars

\* Two threads parse, each its own document, on every platform.
InitThreads ==
    /\ \E pf \in Platforms :
          env = Environment(pf, TRUE, FALSE, 4096, Threads, FALSE)
    /\ InitProcess

SpecThreads == InitThreads /\ [][Next]_vars

(***************************************************************************)
(* Navigation.  The pointers tried are made of at most MaxTokens tokens,   *)
(* in plain form and in fragment form, and of some that are malformed.     *)
(***************************************************************************)
\* The tokens: "f", "0", "1", "~1~0" and "\".
Tokens ==
    {KEY_f, <<ZERO>>, <<ONE>>, <<TILDE, ONE, TILDE, ZERO>>, <<BACKSLASH>>}

\* The pointers of at most n tokens, each token after a '/'.
RECURSIVE TokenPointers(_)
TokenPointers(n) ==
    IF n = 0 THEN {<<>>}
    ELSE TokenPointers(n - 1)
         \cup {p \o <<SLASH>> \o t : p \in TokenPointers(n - 1), t \in Tokens}

\* The hexadecimal digit (upper case) of a value below 16.
HexDigit(v) == IF v < 10 THEN ZERO + v ELSE 55 + v

\* A pointer with every byte but letters and digits written %HH.
RECURSIVE PercentEncoded(_)
PercentEncoded(p) ==
    IF p = <<>> THEN <<>>
    ELSE (IF HexVal(p[1]) >= 0 THEN <<p[1]>>
          ELSE <<PERCENT, HexDigit(p[1] \div 16), HexDigit(p[1] % 16)>>)
         \o PercentEncoded(Tail(p))

\* Fragment forms: '#' before a short pointer, as it is and percent-encoded.
FragmentPointers ==
    {<<HASH>> \o p : p \in TokenPointers(MaxTokens - 1)}
    \cup {<<HASH>> \o PercentEncoded(p) : p \in TokenPointers(MaxTokens - 1)}

\* Pointers that end with the token "-".
DashPointers == {p \o <<SLASH, DASH>> : p \in TokenPointers(MaxTokens - 1)}

\* Other pointers: no leading '/' ("f", "0/"); fragment forms with '#' twice
\* or a '%' followed by fewer than two hexadecimal digits; a '~' that starts
\* no escape; empty tokens ("/", "//", "/f/", "/0/", "/1//~"); a "-" that is
\* not last ("/-/0"); an index beyond INT_MAX ("/0/9999999999"); an index
\* with a leading zero ("/01"); a backslash escaped ("/1/\\").
OddPointers ==
    {KEY_f, <<ZERO, SLASH>>, <<HASH, LETTER_f>>,
     <<HASH, HASH, SLASH, LETTER_f>>, <<HASH, PERCENT, ZERO+2, ZERO+3, SLASH, LETTER_f>>,
     <<HASH, SLASH, LETTER_f, PERCENT>>, <<HASH, SLASH, PERCENT, ZERO+6>>,
     <<HASH, SLASH, PERCENT, ZERO+6, 71>>, <<HASH, SLASH, PERCENT, 71, ZERO+6>>,
     <<SLASH, TILDE>>, <<SLASH, ONE, SLASH, SLASH, TILDE>>,
     <<SLASH>>, <<SLASH, SLASH>>, <<SLASH, LETTER_f, SLASH>>,
     <<SLASH, ZERO, SLASH>>, <<SLASH, DASH, SLASH, ZERO>>,
     <<SLASH, ZERO, ONE>>,
     <<SLASH, ONE, SLASH, BACKSLASH, BACKSLASH>>,
     <<SLASH, ZERO, SLASH, NINE, NINE, NINE, NINE, NINE, NINE, NINE, NINE, NINE, NINE>>}

Pointers ==
    TokenPointers(MaxTokens) \cup DashPointers \cup FragmentPointers
        \cup OddPointers

\* What the byte just past the pointer may be: the NUL of a C string, '-',
\* or '1'.
AfterBytes == {NUL, DASH, ONE}

\* it.down(), it.up(), it.next() that return true.
Down ==
    /\ it.status = "ok"
    /\ down(pj[1].doc, it).r
    /\ it' = down(pj[1].doc, it).s
    /\ last' = [NoOperation EXCEPT !.op = "down"]
    /\ UNCHANGED <<env, json_parse_ptr, pj, pc, call, probes>>

Up ==
    /\ it.status = "ok"
    /\ up(pj[1].doc, it).r
    /\ it' = up(pj[1].doc, it).s
    /\ last' = [NoOperation EXCEPT !.op = "up"]
    /\ UNCHANGED <<env, json_parse_ptr, pj, pc, call, probes>>

NextSibling ==
    /\ it.status = "ok"
    /\ next(pj[1].doc, it).r
    /\ it' = next(pj[1].doc, it).s
    /\ last' = [NoOperation EXCEPT !.op = "next"]
    /\ UNCHANGED <<env, json_parse_ptr, pj, pc, call, probes>>

\* Whether move_to may read the byte just past the pointer p: p is empty
\* (line 131), p or its converted form ends with '/', '~' or '\' (lines 200,
\* 221 and 234), or a '%' is one of the last two bytes of a fragment form
\* (line 138).
MayReadPastEnd(p) ==
    \/ p = <<>>
    \/ p[Len(p)] \in {SLASH, TILDE, BACKSLASH, PERCENT}
    \/ p[1] = HASH /\ Len(p) > 1 /\ p[Len(p) - 1] = PERCENT
    \/ p[1] = HASH /\
          LET q == FragDecode(p, [after |-> NUL], 1, <<>>).p
          IN q = <<>> \/ q[Len(q)] \in {SLASH, TILDE, BACKSLASH}

\* The bytes that may follow the pointer p where move_to may read them.
AfterBytesOf(p) == IF MayReadPastEnd(p) THEN AfterBytes ELSE {NUL}

Shape(p) ==
    [fragment |-> p # <<>> /\ p[1] = HASH,
     percent |-> \E i \in 1..Len(p) : p[i] = PERCENT,
     dash |-> Len(p) >= 2 /\ p[Len(p) - 1] = SLASH /\ p[Len(p)] = DASH]

\* The calling context of move_to on the document of thread 1.
Context(b) == [d |-> pj[1].doc, after |-> b, ndebug |-> env.ndebug]

\* it.move_to(pointer, length).  After an outcome that is undefined the
\* iterator is no longer used.
MoveTo ==
    /\ it.status = "ok"
    /\ \E p \in Pointers :
          \E b \in AfterBytesOf(p) :
             LET res == move_to(it, p, Context(b))
             IN /\ it' = IF res.r = "undefined"
                         THEN [res.s EXCEPT !.status = "undefined"]
                         ELSE res.s
                /\ last' = [NoOperation EXCEPT !.op = "move_to",
                                               !.arg = Shape(p), !.r = res.r]
    /\ UNCHANGED <<env, json_parse_ptr, pj, pc, call, probes>>

\* A process that has parsed one of the documents, at the end of a page and
\* copied, and has built an iterator on it.
InitIter ==
    \E i \in {j \in 1..Len(Inputs) : Inputs[j].doc # 0}, ndebug \in BOOLEAN :
       LET e == Environment([build |-> {"__AVX2__", "__SSE4_2__"},
                             host |-> {"SSE", "AVX", "AVX2"}],
                            FALSE, ndebug, 4096, {1}, TRUE)
           a == [input |-> i, buf |-> 5 * 4096 - Inputs[i].len,
                 len |-> Inputs[i].len, reallocifneeded |-> TRUE,
                 allocok |-> TRUE]
           res == json_parse_implementation(NewParsedJson(26), a, e)
       IN /\ env = e
          /\ json_parse_ptr = "avx2"
          /\ pj = [t \in Threads |-> IF t = 1 THEN res.pj ELSE NewParsedJson(26)]
          /\ pc = [t \in Threads |-> "idle"]
          /\ call = [t \in Threads |->
                       IF t = 1
                       THEN [input |-> a.input, buf |-> a.buf, len |-> a.len,
                             reallocifneeded |-> TRUE, allocok |-> TRUE,
                             via |-> "json_parse_dispatch", best |-> "avx2",
                             ret |-> res.ret, events |-> res.events]
                       ELSE NoCall]
          /\ probes = 1
          /\ it = IteratorCtor(res.pj)
          /\ last = [NoOperation EXCEPT !.op = "iterator", !.lastret = res.ret,
                                        !.errorcode = res.pj.errorcode]

NextIter == Down \/ Up \/ NextSibling \/ MoveTo

SpecIter == InitIter /\ [][NextIter]_vars

(***************************************************************************)
(* What a JSON Pointer designates (RFC 6901), read off the document tree   *)
(* and not off the tape: the yardstick the resolver is held against.       *)
(***************************************************************************)
\* The tokens of the pointer p from byte i on (1-based), '~1' standing for
\* '/' and '~0' for '~'; ok = FALSE when a '~' starts neither.
RECURSIVE RefSplit(_, _, _, _)
RefSplit(p, i, cur, acc) ==
    IF i > Len(p) THEN [ok |-> TRUE, toks |-> Append(acc, cur)]
    ELSE IF p[i] = SLASH THEN RefSplit(p, i + 1, <<>>, Append(acc, cur))
    ELSE IF p[i] = TILDE
    THEN IF i < Len(p) /\ p[i + 1] \in {ZERO, ONE}
         THEN RefSplit(p, i + 2,
                       Append(cur, IF p[i + 1] = ONE THEN SLASH ELSE TILDE), acc)
         ELSE [ok |-> FALSE, toks |-> <<>>]
    ELSE RefSplit(p, i + 1, Append(cur, p[i]), acc)

RefTokens(p) ==
    IF p = <<>> THEN [ok |-> TRUE, toks |-> <<>>]
    ELSE IF p[1] # SLASH THEN [ok |-> FALSE, toks |-> <<>>]
    ELSE RefSplit(p, 2, <<>>, <<>>)

IsDigits(tok) ==
    tok # <<>> /\ \A i \in 1..Len(tok) : tok[i] >= ZERO /\ tok[i] <= NINE

\* The array index a token stands for, or -1: digits only, and few enough of
\* them to index an array of the documents.
RECURSIVE RefNumber(_)
RefNumber(tok) ==
    IF tok = <<>> THEN 0
    ELSE 10 * RefNumber(SubSeq(tok, 1, Len(tok) - 1)) + (tok[Len(tok)] - ZERO)

RefIndex(tok) == IF IsDigits(tok) /\ Len(tok) < 9 THEN RefNumber(tok) ELSE -1

NoNode == [loc |-> -1, v |-> Num(0)]

\* The node that the tokens toks designate from the node v, whose first tape
\* slot is loc: the node and its first tape slot, or NoNode.
RECURSIVE RefNode(_, _, _)
RefNode(v, loc, toks) ==
    IF toks = <<>> THEN [loc |-> loc, v |-> v]
    ELSE IF v.t = "obj"
    THEN LET ks == {k \in 1..Len(v.keys) : v.keys[k] = Head(toks)}
         IN IF ks = {} THEN NoNode
            ELSE LET k == CHOOSE m \in ks : \A n \in ks : m <= n
                 IN RefNode(v.kids[k], ChildBase(v, loc, k), Tail(toks))
    ELSE IF v.t = "arr"
    THEN LET n == RefIndex(Head(toks))
         IN IF n < 0 \/ n >= Len(v.kids) THEN NoNode
            ELSE RefNode(v.kids[n + 1], ChildBase(v, loc, n + 1), Tail(toks))
    ELSE NoNode

\* The node of document d that the plain pointer p designates, or NoNode.
Designates(d, p) ==
    IF RefTokens(p).ok THEN RefNode(Docs[d], 1, RefTokens(p).toks) ELSE NoNode

HasBackslash(p) == \E i \in 1..Len(p) : p[i] = BACKSLASH

\* The live part of an iterator's state: its fields and the entries of the
\* scope stack from 0 to depth.
Cursor(s) ==
    [depth |-> s.depth, location |-> s.location,
     tape_length |-> s.tape_length, current_type |-> s.current_type,
     current_val |-> s.current_val,
     scopes |-> [k \in 0..s.depth |-> s.depthindex[k]]]

\* move_to(p) from the iterator s returns true and leaves the cursor on the
\* node that p designates in the document, at the depth of that node.
ReachesDesignated(s, p, b) ==
    LET res == move_to(s, p, Context(b))
        n == Designates(pj[1].doc, p)
    IN /\ res.r = "true"
       /\ res.s.location = n.loc
       /\ res.s.current_type = TapeAt(pj[1].doc, n.loc).tag
       /\ res.s.depth = Len(RefTokens(p).toks) + 1

\* C1, as amended: from every cursor position, move_to(p) with a plain
\* pointer p that designates a node of the document and holds no backslash
\* returns true and leaves the cursor on that node; the empty pointer
\* designates the root.
C1_MoveToDesignatedNode ==
    it.status = "ok" =>
       \A p \in Pointers :
          (Designates(pj[1].doc, p).loc >= 0 /\ ~HasBackslash(p)) =>
             \A b \in AfterBytesOf(p) : ReachesDesignated(it, p, b)

\* C1 as the specification states it: the same for every plain pointer that
\* designates a node, a key with a backslash included.
C1_AsClaimed ==
    it.status = "ok" =>
       \A p \in Pointers :
          Designates(pj[1].doc, p).loc >= 0 =>
             \A b \in AfterBytesOf(p) : ReachesDesignated(it, p, b)

\* move_to with a plain pointer has returned true on {"f":[{"f":42}]} and the
\* cursor is on the 42 that "/f/0/f" designates.
C1_Witness ==
    /\ last.op = "move_to" /\ last.r = "true" /\ ~last.arg.fragment
    /\ pj[1].doc = 1
    /\ it.location = Designates(1, <<SLASH, LETTER_f, SLASH, ZERO, SLASH, LETTER_f>>).loc
    /\ it.current_type = "l" /\ it.depth = 4

\* C2 as the specification states it: a move_to that returns false leaves
\* the iterator's state, the scope stack up to depth included, as it was.
C2_AsClaimed ==
    [][(last'.op = "move_to" /\ last'.r = "false") => Cursor(it') = Cursor(it)]_vars

\* The value of a hexadecimal digit.
RefHex(c) ==
    CASE c \in 48..57 -> c - 48
      [] c \in 65..70 -> c - 55
      [] c \in 97..102 -> c - 87

IsHex(c) == c \in (48..57) \cup (65..70) \cup (97..102)

\* Every '%' of f is followed by two hexadecimal digits.
PercentsAreValid(f) ==
    \A i \in 1..Len(f) :
       f[i] = PERCENT => i + 2 <= Len(f) /\ IsHex(f[i + 1]) /\ IsHex(f[i + 2])

\* A pointer that fails to decode on document d, the byte b following it:
\* not empty and beginning with neither '/' nor '#'; a backslash followed by
\* a byte other than '\', '"' or one up to 0x1F; in fragment form, a '%' not
\* followed by two hexadecimal digits; or a token that is neither "-" nor a
\* decimal index where an array is reached.
RECURSIVE BadEscape(_, _, _)
BadEscape(p, i, b) ==
    IF i > Len(p) THEN FALSE
    ELSE IF p[i] = BACKSLASH
    THEN LET c == IF i < Len(p) THEN p[i + 1] ELSE b
         IN IF c = BACKSLASH \/ c = QUOTE \/ c <= CTRL_MAX
            THEN BadEscape(p, i + 2, b)
            ELSE TRUE
    ELSE BadEscape(p, i + 1, b)

RECURSIVE BadArrayToken(_, _)
BadArrayToken(v, toks) ==
    IF toks = <<>> THEN FALSE
    ELSE IF v.t = "arr"
    THEN IF Head(toks) = <<DASH>> THEN FALSE
         ELSE IF ~IsDigits(Head(toks)) THEN TRUE
         ELSE LET n == RefIndex(Head(toks))
              IN IF n < 0 THEN TRUE  \* too large to be an index
                 ELSE IF n >= Len(v.kids) THEN FALSE
                 ELSE BadArrayToken(v.kids[n + 1], Tail(toks))
    ELSE IF v.t = "obj"
    THEN LET n == RefNode(v, 0, <<Head(toks)>>)
         IN IF n = NoNode THEN FALSE ELSE BadArrayToken(n.v, Tail(toks))
    ELSE FALSE

FailsToDecode(d, p, b) ==
    \/ p # <<>> /\ p[1] \notin {SLASH, HASH}
    \/ p # <<>> /\ p[1] = SLASH /\ BadEscape(p, 1, b)
    \/ p # <<>> /\ p[1] = HASH /\ ~PercentsAreValid(Tail(p))
    \/ RefTokens(p).ok /\ BadArrayToken(Docs[d], RefTokens(p).toks)

\* C5 as the specification states it: move_to returns false, no exception
\* escaping, for every pointer that fails to decode.
C5_AsClaimed ==
    it.status = "ok" =>
       \A p \in Pointers :
          \A b \in AfterBytesOf(p) :
             FailsToDecode(pj[1].doc, p, b)
             => move_to(it, p, Context(b)).r = "false"

\* move_to(p + "/-") from the iterator s, p designating the array n, returns
\* true and leaves the cursor on the last element of n.
ReachesLastElement(s, p, n) ==
    LET res == move_to(s, p \o <<SLASH, DASH>>, Context(NUL))
    IN /\ res.r = "true"
       /\ res.s.location = ChildBase(n.v, n.loc, Len(n.v.kids))
       /\ res.s.depth = Len(RefTokens(p).toks) + 2

\* relative_move_to("/-") from the cursor s on an array returns true and
\* leaves the cursor one level down, on an element that has no next sibling,
\* in the scope of that array.
DashReachesLast(s) ==
    LET res == relative_move_to(s, <<SLASH, DASH>>, Context(NUL))
    IN /\ res.r = "true"
       /\ res.s.depth = s.depth + 1
       /\ ~next(pj[1].doc, res.s).r
       /\ up(pj[1].doc, res.s).s.location = s.location

\* C6, as amended: when the node reached is an array that has at least one
\* element, the token "-" makes relative_move_to, hence move_to, return true
\* with the cursor on the array's last element.
C6_DashOnNonEmptyArray ==
    it.status = "ok" =>
       /\ (is_array(it) /\ it.current_val # it.location + 2) => DashReachesLast(it)
       /\ \A p \in TokenPointers(MaxTokens - 1) :
             LET n == Designates(pj[1].doc, p)
             IN (n.loc >= 0 /\ ~HasBackslash(p) /\ n.v.t = "arr"
                    /\ Len(n.v.kids) > 0)
                => ReachesLastElement(it, p, n)

\* C6 as the specification states it: the same for every array, whatever
\* its number of elements.
C6_AsClaimed ==
    (it.status = "ok" /\ is_array(it)) =>
        relative_move_to(it, <<SLASH, DASH>>, Context(NUL)).r = "true"

\* move_to with a pointer that ends with "/-" has returned true and the
\* cursor is on the 2 of [1,2] in [[7],{"/~":[1,2],"\\":[]}].
C6_Witness ==
    /\ last.op = "move_to" /\ last.r = "true" /\ last.arg.dash
    /\ pj[1].doc = 2
    /\ it.location =
          Designates(2, <<SLASH, ONE, SLASH, TILDE, ONE, TILDE, ZERO, SLASH, ONE>>).loc
    /\ it.depth = 4

\* f with each %HH replaced by the byte HH, preceded by a backslash when
\* that byte is '\', '"' or at most 0x1F.
RECURSIVE PlainForm(_)
PlainForm(f) ==
    IF f = <<>> THEN <<>>
    ELSE IF f[1] = PERCENT
    THEN LET byte == 16 * RefHex(f[2]) + RefHex(f[3])
         IN (IF byte = BACKSLASH \/ byte = QUOTE \/ byte <= CTRL_MAX
             THEN <<BACKSLASH, byte>> ELSE <<byte>>)
            \o PlainForm(SubSeq(f, 4, Len(f)))
    ELSE <<f[1]>> \o PlainForm(Tail(f))

IsValidFragment(p) == p # <<>> /\ p[1] = HASH /\ PercentsAreValid(Tail(p))

\* move_to(p) and move_to(g) from the iterator s have the same outcome and
\* end with the same iterator.
SameMove(s, p, g, b) == move_to(s, p, Context(b)) = move_to(s, g, Context(b))

Returned(t) == pc[t] = "idle" /\ call[t].ret # "none"

\* C3 as the specification states it: after every call of json_parse that
\* returns a status other than SUCCESS, pj.errorcode is that status.
C3_AsClaimed ==
    \A t \in Threads :
       (Returned(t) /\ call[t].ret # SUCCESS) => pj[t].errorcode = call[t].ret

\* The SIMDJSON_PADDING bytes after the byte at address lastbyte lie in the
\* page of that byte.
PaddingInSamePage(lastbyte, pagesize) ==
    (lastbyte + SIMDJSON_PADDING) \div pagesize = lastbyte \div pagesize

ParsedInPlace(t) == \E i \in 1..Len(call[t].events) : call[t].events[i] = "stage1 caller"

\* C4 as the specification states it: with reallocifneeded true and the
\* same-page over-read enabled, the input is parsed in place only when the
\* padding after its last byte lies in the same page as that byte.
C4_AsClaimed ==
    \A t \in Threads :
       (Returned(t) /\ call[t].reallocifneeded /\ env.overrun /\ ParsedInPlace(t))
       => PaddingInSamePage(call[t].buf + call[t].len - 1, env.pagesize)

IsStage1(e) == e \in {"stage1 caller", "stage1 copy"}
IsStage2(e) == e \in {"stage2 caller", "stage2 copy"}

\* C8: in every parse, stage 2 runs only right after stage 1 has returned
\* SUCCESS on the same buffer; when stage 1 returns another status, the call
\* returns that status and stage 2 does not run.
C8_Stage2OnlyAfterStage1 ==
    \A t \in Threads :
       Returned(t) =>
          LET ev == call[t].events
              s1 == Inputs[call[t].input].s1
          IN /\ \A i \in 1..Len(ev) :
                   IsStage2(ev[i]) =>
                      /\ i > 1 /\ IsStage1(ev[i - 1]) /\ s1 = SUCCESS
                      /\ (ev[i] = "stage2 copy") = (ev[i - 1] = "stage1 copy")
             /\ ((\E i \in 1..Len(ev) : IsStage1(ev[i])) /\ s1 # SUCCESS) =>
                   /\ call[t].ret = s1
                   /\ \A i \in 1..Len(ev) : ~IsStage2(ev[i])

\* A parse has returned in which stage 1 ran and reported an unclosed string.
C8_Witness ==
    \E t \in Threads :
       /\ Returned(t)
       /\ \E i \in 1..Len(call[t].events) : IsStage1(call[t].events[i])
       /\ Inputs[call[t].input].s1 = UNCLOSED_STRING
       /\ call[t].ret = UNCLOSED_STRING

\* C9 as the specification states it: building an iterator on a document
\* that was never parsed, or whose last parse failed, yields no usable
\* cursor, and the failure carries the status code held by the document.
C9_AsClaimed ==
    (last.op = "iterator" /\ last.lastret # SUCCESS) =>
        (it.status # "ok" /\ it.code = last.errorcode)

\* The fastest implementation that is compiled in and that the host
\* supports, AVX2 before SSE4.2, or "none".
Fastest(build, host) ==
    IF "__AVX2__" \in build /\ "AVX2" \in host THEN "avx2"
    ELSE IF "__SSE4_2__" \in build /\ "SSE" \in host THEN "sse4_2"
    ELSE IF "__ARM_NEON" \in build /\ "NEON" \in host THEN "neon"
    ELSE "none"

Count(ev, e) == Cardinality({i \in 1..Len(ev) : ev[i] = e})

\* C11 as the specification states it: every padded copy that a parse
\* allocates is freed before the call returns, whatever the return path, so
\* that no copy remains allocated after a call.
C11_AsClaimed ==
    \A t \in Threads :
       Returned(t) => Count(call[t].events, "free") = Count(call[t].events, "alloc")

====
